---- MODULE Spec2Model ----
(***************************************************************************)
(* School management system (src/index.py): the SchoolManagementSystem     *)
(* class over its SQLite store.                                            *)
(*                                                                         *)
(* Text values the code inspects character by character (usernames,        *)
(* e-mails, phones, course lists, course names, student ids) are sequences *)
(* of one-character strings.  Enumerated text (role, status, day, name,    *)
(* password, times) is a plain string.  A character that a TLA+ string     *)
(* cannot hold (a control character without an escape, a character outside *)
(* ASCII) is written by its code point: "U+000B", "U+0661".                *)
(*                                                                         *)
(* An int-or-None value (grade_level, grade) is a set: {} for None / SQL    *)
(* NULL, {n} for the number n.                                              *)
(***************************************************************************)
EXTENDS Integers, Sequences, FiniteSets, TLC

(* ---------------------------------------------------------------------- *)
(* Bounds of the exploration                                               *)
(* ---------------------------------------------------------------------- *)
MaxUsers == 4
MaxCourses == 2
MaxEnrollments == 2
MaxAttendance == 2
MaxTimetable == 1
MaxDay == 2

(* ---------------------------------------------------------------------- *)
(* Python values                                                           *)
(* ---------------------------------------------------------------------- *)
\* Python None / SQL NULL in a text position: a one-element sequence whose
\* element is not a character, so it differs from every string.
None == << "<None>" >>
\* Python None / SQL NULL in a numeric position (grade_level, grade): no
\* number at all, so it differs from every number.
NullGrade == {}
\* the number n in such a position, and the number such a value holds
Number(n) == {n}
ValueOf(x) == CHOOSE n \in x : TRUE
\* SQL "x BETWEEN lo AND hi" is true (false for a number outside, NULL for NULL)
Between(x, lo, hi) == x # NullGrade /\ ValueOf(x) >= lo /\ ValueOf(x) <= hi

\* bool(x) for a str-or-None value
Truthy(x) == x # None /\ x # << >>
\* bool(n) for an int-or-None value
TruthyInt(n) == n # NullGrade /\ n # Number(0)

\* the decimal digits outside ASCII (general category Nd, Unicode 14.0.0)
UnicodeDigit ==
    {"U+0660", "U+0661", "U+0662", "U+0663", "U+0664",
     "U+0665", "U+0666", "U+0667", "U+0668", "U+0669",
     "U+06F0", "U+06F1", "U+06F2", "U+06F3", "U+06F4",
     "U+06F5", "U+06F6", "U+06F7", "U+06F8", "U+06F9",
     "U+07C0", "U+07C1", "U+07C2", "U+07C3", "U+07C4",
     "U+07C5", "U+07C6", "U+07C7", "U+07C8", "U+07C9",
     "U+0966", "U+0967", "U+0968", "U+0969", "U+096A",
     "U+096B", "U+096C", "U+096D", "U+096E", "U+096F",
     "U+09E6", "U+09E7", "U+09E8", "U+09E9", "U+09EA",
     "U+09EB", "U+09EC", "U+09ED", "U+09EE", "U+09EF",
     "U+0A66", "U+0A67", "U+0A68", "U+0A69", "U+0A6A",
     "U+0A6B", "U+0A6C", "U+0A6D", "U+0A6E", "U+0A6F",
     "U+0AE6", "U+0AE7", "U+0AE8", "U+0AE9", "U+0AEA",
     "U+0AEB", "U+0AEC", "U+0AED", "U+0AEE", "U+0AEF",
     "U+0B66", "U+0B67", "U+0B68", "U+0B69", "U+0B6A",
     "U+0B6B", "U+0B6C", "U+0B6D", "U+0B6E", "U+0B6F",
     "U+0BE6", "U+0BE7", "U+0BE8", "U+0BE9", "U+0BEA",
     "U+0BEB", "U+0BEC", "U+0BED", "U+0BEE", "U+0BEF",
     "U+0C66", "U+0C67", "U+0C68", "U+0C69", "U+0C6A",
     "U+0C6B", "U+0C6C", "U+0C6D", "U+0C6E", "U+0C6F",
     "U+0CE6", "U+0CE7", "U+0CE8", "U+0CE9", "U+0CEA",
     "U+0CEB", "U+0CEC", "U+0CED", "U+0CEE", "U+0CEF",
     "U+0D66", "U+0D67", "U+0D68", "U+0D69", "U+0D6A",
     "U+0D6B", "U+0D6C", "U+0D6D", "U+0D6E", "U+0D6F",
     "U+0DE6", "U+0DE7", "U+0DE8", "U+0DE9", "U+0DEA",
     "U+0DEB", "U+0DEC", "U+0DED", "U+0DEE", "U+0DEF",
     "U+0E50", "U+0E51", "U+0E52", "U+0E53", "U+0E54",
     "U+0E55", "U+0E56", "U+0E57", "U+0E58", "U+0E59",
     "U+0ED0", "U+0ED1", "U+0ED2", "U+0ED3", "U+0ED4",
     "U+0ED5", "U+0ED6", "U+0ED7", "U+0ED8", "U+0ED9",
     "U+0F20", "U+0F21", "U+0F22", "U+0F23", "U+0F24",
     "U+0F25", "U+0F26", "U+0F27", "U+0F28", "U+0F29",
     "U+1040", "U+1041", "U+1042", "U+1043", "U+1044",
     "U+1045", "U+1046", "U+1047", "U+1048", "U+1049",
     "U+1090", "U+1091", "U+1092", "U+1093", "U+1094",
     "U+1095", "U+1096", "U+1097", "U+1098", "U+1099",
     "U+17E0", "U+17E1", "U+17E2", "U+17E3", "U+17E4",
     "U+17E5", "U+17E6", "U+17E7", "U+17E8", "U+17E9",
     "U+1810", "U+1811", "U+1812", "U+1813", "U+1814",
     "U+1815", "U+1816", "U+1817", "U+1818", "U+1819",
     "U+1946", "U+1947", "U+1948", "U+1949", "U+194A",
     "U+194B", "U+194C", "U+194D", "U+194E", "U+194F",
     "U+19D0", "U+19D1", "U+19D2", "U+19D3", "U+19D4",
     "U+19D5", "U+19D6", "U+19D7", "U+19D8", "U+19D9",
     "U+1A80", "U+1A81", "U+1A82", "U+1A83", "U+1A84",
     "U+1A85", "U+1A86", "U+1A87", "U+1A88", "U+1A89",
     "U+1A90", "U+1A91", "U+1A92", "U+1A93", "U+1A94",
     "U+1A95", "U+1A96", "U+1A97", "U+1A98", "U+1A99",
     "U+1B50", "U+1B51", "U+1B52", "U+1B53", "U+1B54",
     "U+1B55", "U+1B56", "U+1B57", "U+1B58", "U+1B59",
     "U+1BB0", "U+1BB1", "U+1BB2", "U+1BB3", "U+1BB4",
     "U+1BB5", "U+1BB6", "U+1BB7", "U+1BB8", "U+1BB9",
     "U+1C40", "U+1C41", "U+1C42", "U+1C43", "U+1C44",
     "U+1C45", "U+1C46", "U+1C47", "U+1C48", "U+1C49",
     "U+1C50", "U+1C51", "U+1C52", "U+1C53", "U+1C54",
     "U+1C55", "U+1C56", "U+1C57", "U+1C58", "U+1C59",
     "U+A620", "U+A621", "U+A622", "U+A623", "U+A624",
     "U+A625", "U+A626", "U+A627", "U+A628", "U+A629",
     "U+A8D0", "U+A8D1", "U+A8D2", "U+A8D3", "U+A8D4",
     "U+A8D5", "U+A8D6", "U+A8D7", "U+A8D8", "U+A8D9",
     "U+A900", "U+A901", "U+A902", "U+A903", "U+A904",
     "U+A905", "U+A906", "U+A907", "U+A908", "U+A909",
     "U+A9D0", "U+A9D1", "U+A9D2", "U+A9D3", "U+A9D4",
     "U+A9D5", "U+A9D6", "U+A9D7", "U+A9D8", "U+A9D9",
     "U+A9F0", "U+A9F1", "U+A9F2", "U+A9F3", "U+A9F4",
     "U+A9F5", "U+A9F6", "U+A9F7", "U+A9F8", "U+A9F9",
     "U+AA50", "U+AA51", "U+AA52", "U+AA53", "U+AA54",
     "U+AA55", "U+AA56", "U+AA57", "U+AA58", "U+AA59",
     "U+ABF0", "U+ABF1", "U+ABF2", "U+ABF3", "U+ABF4",
     "U+ABF5", "U+ABF6", "U+ABF7", "U+ABF8", "U+ABF9",
     "U+FF10", "U+FF11", "U+FF12", "U+FF13", "U+FF14",
     "U+FF15", "U+FF16", "U+FF17", "U+FF18", "U+FF19",
     "U+104A0", "U+104A1", "U+104A2", "U+104A3", "U+104A4",
     "U+104A5", "U+104A6", "U+104A7", "U+104A8", "U+104A9",
     "U+10D30", "U+10D31", "U+10D32", "U+10D33", "U+10D34",
     "U+10D35", "U+10D36", "U+10D37", "U+10D38", "U+10D39",
     "U+11066", "U+11067", "U+11068", "U+11069", "U+1106A",
     "U+1106B", "U+1106C", "U+1106D", "U+1106E", "U+1106F",
     "U+110F0", "U+110F1", "U+110F2", "U+110F3", "U+110F4",
     "U+110F5", "U+110F6", "U+110F7", "U+110F8", "U+110F9",
     "U+11136", "U+11137", "U+11138", "U+11139", "U+1113A",
     "U+1113B", "U+1113C", "U+1113D", "U+1113E", "U+1113F",
     "U+111D0", "U+111D1", "U+111D2", "U+111D3", "U+111D4",
     "U+111D5", "U+111D6", "U+111D7", "U+111D8", "U+111D9",
     "U+112F0", "U+112F1", "U+112F2", "U+112F3", "U+112F4",
     "U+112F5", "U+112F6", "U+112F7", "U+112F8", "U+112F9",
     "U+11450", "U+11451", "U+11452", "U+11453", "U+11454",
     "U+11455", "U+11456", "U+11457", "U+11458", "U+11459",
     "U+114D0", "U+114D1", "U+114D2", "U+114D3", "U+114D4",
     "U+114D5", "U+114D6", "U+114D7", "U+114D8", "U+114D9",
     "U+11650", "U+11651", "U+11652", "U+11653", "U+11654",
     "U+11655", "U+11656", "U+11657", "U+11658", "U+11659",
     "U+116C0", "U+116C1", "U+116C2", "U+116C3", "U+116C4",
     "U+116C5", "U+116C6", "U+116C7", "U+116C8", "U+116C9",
     "U+11730", "U+11731", "U+11732", "U+11733", "U+11734",
     "U+11735", "U+11736", "U+11737", "U+11738", "U+11739",
     "U+118E0", "U+118E1", "U+118E2", "U+118E3", "U+118E4",
     "U+118E5", "U+118E6", "U+118E7", "U+118E8", "U+118E9",
     "U+11950", "U+11951", "U+11952", "U+11953", "U+11954",
     "U+11955", "U+11956", "U+11957", "U+11958", "U+11959",
     "U+11C50", "U+11C51", "U+11C52", "U+11C53", "U+11C54",
     "U+11C55", "U+11C56", "U+11C57", "U+11C58", "U+11C59",
     "U+11D50", "U+11D51", "U+11D52", "U+11D53", "U+11D54",
     "U+11D55", "U+11D56", "U+11D57", "U+11D58", "U+11D59",
     "U+11DA0", "U+11DA1", "U+11DA2", "U+11DA3", "U+11DA4",
     "U+11DA5", "U+11DA6", "U+11DA7", "U+11DA8", "U+11DA9",
     "U+16A60", "U+16A61", "U+16A62", "U+16A63", "U+16A64",
     "U+16A65", "U+16A66", "U+16A67", "U+16A68", "U+16A69",
     "U+16AC0", "U+16AC1", "U+16AC2", "U+16AC3", "U+16AC4",
     "U+16AC5", "U+16AC6", "U+16AC7", "U+16AC8", "U+16AC9",
     "U+16B50", "U+16B51", "U+16B52", "U+16B53", "U+16B54",
     "U+16B55", "U+16B56", "U+16B57", "U+16B58", "U+16B59",
     "U+1D7CE", "U+1D7CF", "U+1D7D0", "U+1D7D1", "U+1D7D2",
     "U+1D7D3", "U+1D7D4", "U+1D7D5", "U+1D7D6", "U+1D7D7",
     "U+1D7D8", "U+1D7D9", "U+1D7DA", "U+1D7DB", "U+1D7DC",
     "U+1D7DD", "U+1D7DE", "U+1D7DF", "U+1D7E0", "U+1D7E1",
     "U+1D7E2", "U+1D7E3", "U+1D7E4", "U+1D7E5", "U+1D7E6",
     "U+1D7E7", "U+1D7E8", "U+1D7E9", "U+1D7EA", "U+1D7EB",
     "U+1D7EC", "U+1D7ED", "U+1D7EE", "U+1D7EF", "U+1D7F0",
     "U+1D7F1", "U+1D7F2", "U+1D7F3", "U+1D7F4", "U+1D7F5",
     "U+1D7F6", "U+1D7F7", "U+1D7F8", "U+1D7F9", "U+1D7FA",
     "U+1D7FB", "U+1D7FC", "U+1D7FD", "U+1D7FE", "U+1D7FF",
     "U+1E140", "U+1E141", "U+1E142", "U+1E143", "U+1E144",
     "U+1E145", "U+1E146", "U+1E147", "U+1E148", "U+1E149",
     "U+1E2F0", "U+1E2F1", "U+1E2F2", "U+1E2F3", "U+1E2F4",
     "U+1E2F5", "U+1E2F6", "U+1E2F7", "U+1E2F8", "U+1E2F9",
     "U+1E950", "U+1E951", "U+1E952", "U+1E953", "U+1E954",
     "U+1E955", "U+1E956", "U+1E957", "U+1E958", "U+1E959",
     "U+1FBF0", "U+1FBF1", "U+1FBF2", "U+1FBF3", "U+1FBF4",
     "U+1FBF5", "U+1FBF6", "U+1FBF7", "U+1FBF8", "U+1FBF9"}

\* the characters \d matches in a str pattern
Digit == {"0", "1", "2", "3", "4", "5", "6", "7", "8", "9"} \cup UnicodeDigit

\* the characters str.strip() removes: those with str.isspace()
Whitespace ==
    {"\t", "\n", "U+000B", "\f", "\r", "U+001C",
     "U+001D", "U+001E", "U+001F", " ", "U+0085", "U+00A0",
     "U+1680", "U+2000", "U+2001", "U+2002", "U+2003", "U+2004",
     "U+2005", "U+2006", "U+2007", "U+2008", "U+2009", "U+200A",
     "U+2028", "U+2029", "U+202F", "U+205F", "U+3000"}

RECURSIVE Repeat(_, _)
Repeat(c, n) == IF n <= 0 THEN << >> ELSE << c >> \o Repeat(c, n - 1)

\* s[-4:]
Last4(s) == IF Len(s) <= 4 THEN s ELSE SubSeq(s, Len(s) - 3, Len(s))

\* str.zfill(width): zeros go after a leading sign
zfill(s, width) ==
    IF Len(s) >= width THEN s
    ELSE IF Len(s) > 0 /\ s[1] \in {"+", "-"}
         THEN << s[1] >> \o Repeat("0", width - Len(s)) \o Tail(s)
         ELSE Repeat("0", width - Len(s)) \o s

DigitChar(d) == CASE d = 0 -> "0" [] d = 1 -> "1" [] d = 2 -> "2" [] d = 3 -> "3"
                  [] d = 4 -> "4" [] d = 5 -> "5" [] d = 6 -> "6" [] d = 7 -> "7"
                  [] d = 8 -> "8" [] d = 9 -> "9"

RECURSIVE Decimal(_)
Decimal(n) == IF n < 10 THEN << DigitChar(n) >>
              ELSE Decimal(n \div 10) \o << DigitChar(n % 10) >>

\* f"{n:02d}"
Format02d(n) == IF n < 0 THEN << "-" >> \o zfill(Decimal(0 - n), 1)
                ELSE zfill(Decimal(n), 2)

\* str.strip()
RECURSIVE lstrip(_)
lstrip(s) == IF Len(s) > 0 /\ s[1] \in Whitespace THEN lstrip(Tail(s)) ELSE s
RECURSIVE rstrip(_)
rstrip(s) == IF Len(s) > 0 /\ s[Len(s)] \in Whitespace
             THEN rstrip(SubSeq(s, 1, Len(s) - 1)) ELSE s
strip(s) == rstrip(lstrip(s))

\* str.split(","): always at least one piece
RECURSIVE split(_, _)
split(s, cur) ==
    IF s = << >> THEN << cur >>
    ELSE IF s[1] = "," THEN << cur >> \o split(Tail(s), << >>)
    ELSE split(Tail(s), cur \o << s[1] >>)

\* hashlib.sha256(password.encode()).hexdigest(): a digest, never the
\* plaintext; distinct passwords of the model have distinct digests.
hash_password(password) == << "sha256", password >>

\* re.match(r"[^@]+@[^@]+\.[^@]+", email): a match of a PREFIX of email
validate_email(email) ==
    \E i \in 1..Len(email) : \E j \in 1..Len(email) :
        /\ \A k \in 1..i : email[k] # "@"
        /\ i + 1 <= Len(email) /\ email[i + 1] = "@"
        /\ j >= i + 3
        /\ \A k \in (i + 2)..(j - 1) : email[k] # "@"
        /\ email[j] = "."
        /\ j + 1 <= Len(email) /\ email[j + 1] # "@"

\* re.match(r"^\+?\d{10,15}$", phone) if phone else True
\* ($ also matches just before one trailing newline)
validate_phone(phone) ==
    IF ~Truthy(phone) THEN TRUE
    ELSE LET body == IF phone[1] = "+" THEN Tail(phone) ELSE phone
             core == IF Len(body) > 0 /\ body[Len(body)] = "\n"
                     THEN SubSeq(body, 1, Len(body) - 1) ELSE body
         IN /\ Len(core) >= 10 /\ Len(core) <= 15
            /\ \A k \in 1..Len(core) : core[k] \in Digit


(* ---------------------------------------------------------------------- *)
(* State                                                                   *)
(* ---------------------------------------------------------------------- *)
VARIABLES
    conn,            \* the six tables as self.conn sees them (committed rows
                     \* and the rows of its open transaction)
    durable,         \* the six tables as committed to school_management.db
    logged_in_user,  \* self.logged_in_user
    today,           \* datetime.now().date()
    last,            \* the last call: operation, arguments, outcome
    files            \* the report files written so far: name and content

vars == << conn, durable, logged_in_user, today, last, files >>

\* self.logged_in_user = None
LoggedOut == [username |-> None, role |-> "<None>", name |-> "<None>"]

Roles == {"admin", "teacher", "student"}
Statuses == {"Present", "Absent", "Late"}
Days == {"Monday", "Tuesday", "Wednesday", "Thursday", "Friday"}

AdminUsername == << "a", "d", "m", "i", "n" >>
AdminEmail == << "a", "d", "m", "i", "n", "@", "s", "c", "h", "o", "o", "l",
                 ".", "e", "d", "u" >>

EmptyTables ==
    [users |-> {}, students |-> {}, courses |-> << >>,
     enrollments |-> << >>, attendance |-> << >>, timetable |-> << >>]

\* initialize_admin on the tables t
initialize_admin(t) ==
    IF Cardinality({u \in t.users : u.role = "admin"}) = 0
    THEN [t EXCEPT !.users = @ \cup
            {[username |-> AdminUsername,
              password |-> hash_password("admin123"),
              role |-> "admin",
              name |-> "System Administrator",
              email |-> AdminEmail,
              phone |-> None]}]
    ELSE t

\* drop_tables followed by create_tables
create_tables == EmptyTables

\* (mutant) the DROP statements are gone ("Remove in production"): the
\* CREATE TABLE IF NOT EXISTS statements keep whatever the file holds
drop_tables_removed(t) == t

\* drop_tables on the committed tables t, then create_tables: six empty tables
drop_tables(t) == create_tables

Init ==
    /\ conn = initialize_admin(create_tables)
    /\ durable = initialize_admin(create_tables)
    /\ logged_in_user = LoggedOut
    /\ today = 1
    /\ last = [op |-> "__init__", args |-> << >>, result |-> "None"]
    /\ files = {}

\* __init__: a process start.  The open transaction of the previous process
\* is lost, every table is dropped and recreated, the admin row is inserted.
Construct ==
    /\ conn' = initialize_admin(drop_tables(durable))
    /\ durable' = initialize_admin(drop_tables(durable))
    /\ logged_in_user' = LoggedOut
    /\ last' = [op |-> "__init__", args |-> << >>, result |-> "None"]
    /\ UNCHANGED << today, files >>

\* the clock passes midnight
AdvanceDay ==
    /\ today < MaxDay
    /\ today' = today + 1
    /\ UNCHANGED << conn, durable, logged_in_user, last, files >>

(* ---------------------------------------------------------------------- *)
(* login                                                                   *)
(* ---------------------------------------------------------------------- *)
\* (mutant) the lookup trims the username before comparing
login_rows_trimmed(users, username, password) ==
    {u \in users : u.username = strip(username)
                   /\ u.password = hash_password(password)}

\* SELECT username, role, name FROM users WHERE username = ? AND password = ?
login_rows(users, username, password) ==
    {u \in users : u.username = username /\ u.password = hash_password(password)}

login(username, password) ==
    LET rows == login_rows(conn.users, username, password)
    IN /\ IF rows # {}
          THEN LET user == CHOOSE u \in rows : TRUE
               IN /\ logged_in_user' = [username |-> user.username,
                                        role |-> user.role,
                                        name |-> user.name]
                  /\ last' = [op |-> "login",
                              args |-> [username |-> username, password |-> password],
                              result |-> "True"]
          ELSE /\ UNCHANGED logged_in_user
               /\ last' = [op |-> "login",
                           args |-> [username |-> username, password |-> password],
                           result |-> "False"]
       /\ UNCHANGED << conn, durable, today, files >>


(* ---------------------------------------------------------------------- *)
(* add_user                                                                *)
(* ---------------------------------------------------------------------- *)
\* (mutant) only the logged-out caller is turned away
lacks_role_logged_out(liu, role) == liu = LoggedOut

\* not self.logged_in_user or self.logged_in_user["role"] != role
lacks_role(liu, role) == liu = LoggedOut \/ liu.role # role

\* f"STU{username[-4:].zfill(4)}{grade_level:02d}"
student_id(username, grade_level) ==
    << "S", "T", "U" >> \o zfill(Last4(username), 4) \o Format02d(ValueOf(grade_level))

\* constraints of the users table on an INSERT of row
users_insert_ok(users, row) ==
    /\ \A u \in users : u.username # row.username        \* PRIMARY KEY
    /\ row.role \in Roles                                 \* CHECK(role IN ...)
    /\ \A u \in users : u.email # row.email               \* UNIQUE

\* constraints of the students table on an INSERT of row
students_insert_ok(students, row) ==
    /\ \A st \in students : st.student_id # row.student_id   \* PRIMARY KEY
    /\ \A st \in students : st.username # row.username       \* UNIQUE
    /\ row.grade_level = NullGrade \/ Between(row.grade_level, 1, 12)   \* CHECK

\* SELECT course_id FROM courses WHERE teacher_username = ?
courses_of(courses, teacher) ==
    SelectSeq(courses, LAMBDA c : c.teacher_username = teacher)

\* (mutant) the auto-enrollment rows start with grade 0 instead of NULL
auto_enroll_graded(enrollments, username, taught) ==
    enrollments \o
    [i \in 1..Len(taught) |->
        [enrollment_id |-> Len(enrollments) + i,
         student_username |-> username,
         course_id |-> taught[i].course_id,
         grade |-> Number(0)]]

\* one INSERT INTO enrollments (student_username, course_id) per fetched course
auto_enroll(enrollments, username, taught) ==
    enrollments \o
    [i \in 1..Len(taught) |->
        [enrollment_id |-> Len(enrollments) + i,
         student_username |-> username,
         course_id |-> taught[i].course_id,
         grade |-> NullGrade]]

\* (mutant) the entries are kept without stripping them first
course_names_unstripped(courses) ==
    SelectSeq(split(courses, << >>), LAMBDA n : n # << >>)

\* the names kept from courses.split(","): stripped and non-empty
course_names(courses) ==
    LET pieces == split(courses, << >>)
        stripped == [i \in 1..Len(pieces) |-> strip(pieces[i])]
    IN SelectSeq(stripped, LAMBDA n : n # << >>)

\* one INSERT INTO courses (course_name, teacher_username, credits) per name
insert_courses(courses, username, names) ==
    courses \o
    [i \in 1..Len(names) |->
        [course_id |-> Len(courses) + i,
         course_name |-> names[i],
         teacher_username |-> username,
         credits |-> 3]]

\* the body of add_user on the tables t for the caller liu: the tables it
\* leaves in the connection, its outcome, and whether it reached commit()
add_user(t, liu, a) ==
    IF lacks_role(liu, "admin")
    THEN [tables |-> t, result |-> "PermissionError", commit |-> FALSE]
    ELSE IF ~(/\ Truthy(a.username) /\ a.password # "" /\ a.role # ""
              /\ a.name # "" /\ Truthy(a.email))
    THEN [tables |-> t, result |-> "ValueError", commit |-> FALSE]
    ELSE IF ~validate_email(a.email)
    THEN [tables |-> t, result |-> "ValueError", commit |-> FALSE]
    ELSE IF Truthy(a.phone) /\ ~validate_phone(a.phone)
    THEN [tables |-> t, result |-> "ValueError", commit |-> FALSE]
    ELSE
    LET urow == [username |-> a.username,
                 password |-> hash_password(a.password),
                 role |-> a.role, name |-> a.name,
                 email |-> a.email, phone |-> a.phone]
        t1 == [t EXCEPT !.users = @ \cup {urow}]
    IN
    IF ~users_insert_ok(t.users, urow)
    THEN [tables |-> t, result |-> "ValueError", commit |-> FALSE]
    ELSE IF a.role = "student" /\ TruthyInt(a.grade_level)
    THEN LET srow == [student_id |-> student_id(a.username, a.grade_level),
                      username |-> a.username,
                      grade_level |-> a.grade_level,
                      assigned_teacher |-> a.assigned_teacher]
             t2 == [t1 EXCEPT !.students = @ \cup {srow}]
         IN IF ~students_insert_ok(t1.students, srow)
            THEN \* IntegrityError after the users INSERT: no rollback
                 [tables |-> t1, result |-> "ValueError", commit |-> FALSE]
            ELSE IF Truthy(a.assigned_teacher)
            THEN [tables |-> [t2 EXCEPT !.enrollments =
                                auto_enroll(@, a.username,
                                    courses_of(t2.courses, a.assigned_teacher))],
                  result |-> "True", commit |-> TRUE]
            ELSE [tables |-> t2, result |-> "True", commit |-> TRUE]
    ELSE IF a.role = "teacher" /\ Truthy(a.courses)
    THEN [tables |-> [t1 EXCEPT !.courses =
                        insert_courses(@, a.username, course_names(a.courses))],
          result |-> "True", commit |-> TRUE]
    ELSE [tables |-> t1, result |-> "True", commit |-> TRUE]

\* the tables stay within the bounds of the exploration
WithinBounds(t) ==
    /\ Cardinality(t.users) <= MaxUsers
    /\ Len(t.courses) <= MaxCourses
    /\ Len(t.enrollments) <= MaxEnrollments
    /\ Len(t.attendance) <= MaxAttendance
    /\ Len(t.timetable) <= MaxTimetable



(* ---------------------------------------------------------------------- *)
(* enroll_student, assign_grade, mark_attendance, add_timetable            *)
(* ---------------------------------------------------------------------- *)
\* (mutant) the lookup forgets the role
student_users_any_role(users, student_username) ==
    {u \in users : u.username = student_username}

\* SELECT username FROM users WHERE username = ? AND role = 'student'
student_users(users, student_username) ==
    {u \in users : u.username = student_username /\ u.role = "student"}

\* SELECT course_id FROM courses WHERE course_id = ?
course_rows(courses, course_id) ==
    SelectSeq(courses, LAMBDA c : c.course_id = course_id)

enroll_student(t, a) ==
    IF student_users(t.users, a.student_username) = {}
    THEN [tables |-> t, result |-> "ValueError", commit |-> FALSE]
    ELSE IF course_rows(t.courses, a.course_id) = << >>
    THEN [tables |-> t, result |-> "ValueError", commit |-> FALSE]
    ELSE [tables |-> [t EXCEPT !.enrollments = Append(@,
                        [enrollment_id |-> Len(@) + 1,
                         student_username |-> a.student_username,
                         course_id |-> a.course_id,
                         grade |-> NullGrade])],
          result |-> "True", commit |-> TRUE]

\* (mutant) the lower end of the range is excluded
grade_check_positive(grade) == grade = NullGrade \/ Between(grade, 1, 100)

\* (mutant) the upper end of the range is not checked
grade_check_unbounded(grade) == grade = NullGrade \/ ValueOf(grade) >= 0

\* CHECK(grade BETWEEN 0 AND 100): NULL passes
grade_check(grade) == grade = NullGrade \/ Between(grade, 0, 100)

\* (mutant) only the first matching enrollment is updated
update_grades_first(enrollments, student_username, course_id, grade) ==
    [i \in 1..Len(enrollments) |->
        IF /\ enrollments[i].student_username = student_username
           /\ enrollments[i].course_id = course_id
           /\ \A k \in 1..(i - 1) :
                 ~(/\ enrollments[k].student_username = student_username
                   /\ enrollments[k].course_id = course_id)
        THEN [enrollments[i] EXCEPT !.grade = grade]
        ELSE enrollments[i]]

\* UPDATE enrollments SET grade = ? WHERE student_username = ? AND course_id = ?
update_grades(enrollments, student_username, course_id, grade) ==
    [i \in 1..Len(enrollments) |->
        IF /\ enrollments[i].student_username = student_username
           /\ enrollments[i].course_id = course_id
        THEN [enrollments[i] EXCEPT !.grade = grade]
        ELSE enrollments[i]]

assign_grade(t, liu, a) ==
    IF lacks_role(liu, "teacher")
    THEN [tables |-> t, result |-> "PermissionError", commit |-> FALSE]
    ELSE IF /\ ~grade_check(a.grade)
            /\ \E i \in 1..Len(t.enrollments) :
                  /\ t.enrollments[i].student_username = a.student_username
                  /\ t.enrollments[i].course_id = a.course_id
    THEN [tables |-> t, result |-> "IntegrityError", commit |-> FALSE]
    ELSE [tables |-> [t EXCEPT !.enrollments =
                        update_grades(@, a.student_username, a.course_id, a.grade)],
          result |-> "True", commit |-> TRUE]

\* (mutant) one record per student, course and date: a second one replaces it
insert_attendance_upsert(attendance, student_username, course_id, date, status) ==
    IF \E i \in 1..Len(attendance) :
          /\ attendance[i].student_username = student_username
          /\ attendance[i].course_id = course_id
          /\ attendance[i].date = date
    THEN [i \in 1..Len(attendance) |->
            IF /\ attendance[i].student_username = student_username
               /\ attendance[i].course_id = course_id
               /\ attendance[i].date = date
            THEN [attendance[i] EXCEPT !.status = status]
            ELSE attendance[i]]
    ELSE Append(attendance,
            [attendance_id |-> Len(attendance) + 1,
             student_username |-> student_username,
             course_id |-> course_id,
             date |-> date,
             status |-> status])

\* INSERT INTO attendance (student_username, course_id, date, status)
insert_attendance(attendance, student_username, course_id, date, status) ==
    Append(attendance,
        [attendance_id |-> Len(attendance) + 1,
         student_username |-> student_username,
         course_id |-> course_id,
         date |-> date,
         status |-> status])

mark_attendance(t, liu, date, a) ==
    IF lacks_role(liu, "teacher")
    THEN [tables |-> t, result |-> "PermissionError", commit |-> FALSE]
    ELSE IF a.status \notin Statuses        \* CHECK(status IN ...)
    THEN [tables |-> t, result |-> "IntegrityError", commit |-> FALSE]
    ELSE [tables |-> [t EXCEPT !.attendance =
                        insert_attendance(@, a.student_username, a.course_id,
                                          date, a.status)],
          result |-> "True", commit |-> TRUE]

add_timetable(t, liu, a) ==
    IF lacks_role(liu, "admin")
    THEN [tables |-> t, result |-> "PermissionError", commit |-> FALSE]
    ELSE IF a.day \notin Days               \* CHECK(day IN ...)
    THEN [tables |-> t, result |-> "IntegrityError", commit |-> FALSE]
    ELSE [tables |-> [t EXCEPT !.timetable = Append(@,
                        [timetable_id |-> Len(@) + 1,
                         course_id |-> a.course_id,
                         day |-> a.day,
                         start_time |-> a.start_time,
                         end_time |-> a.end_time])],
          result |-> "True", commit |-> TRUE]

\* a call whose body is the function f: the connection takes its tables,
\* commit() makes them durable
Call(op, a, r) ==
    /\ WithinBounds(r.tables)
    /\ conn' = r.tables
    /\ durable' = IF r.commit THEN r.tables ELSE durable
    /\ last' = [op |-> op, args |-> a, result |-> r.result]
    /\ UNCHANGED << logged_in_user, today, files >>

AddUser(a) == Call("add_user", a, add_user(conn, logged_in_user, a))
EnrollStudent(a) == Call("enroll_student", a, enroll_student(conn, a))
AssignGrade(a) == Call("assign_grade", a, assign_grade(conn, logged_in_user, a))
MarkAttendance(a) ==
    Call("mark_attendance", a, mark_attendance(conn, logged_in_user, today, a))
AddTimetable(a) == Call("add_timetable", a, add_timetable(conn, logged_in_user, a))


(* ---------------------------------------------------------------------- *)
(* Inputs                                                                  *)
(* ---------------------------------------------------------------------- *)
T1 == << "t", "1" >>
ABob1 == << "a", "b", "o", "b", "1" >>
CBob1 == << "c", "b", "o", "b", "1" >>
MailA == << "a", "@", "b", ".", "c" >>
MailS == << "s", "@", "b", ".", "c" >>
MailTrailing == << "a", "@", "b", ".", "c", "@", "d" >>
PhoneOk == << "+", "1", "2", "3", "4", "5", "6", "7", "8", "9", "0" >>
PhoneNewline == << "1", "2", "3", "4", "5", "6", "7", "8", "9", "0", "\n" >>
CoursesMM == << "M", ",", " ", ",", "M" >>
CoursesA == << " ", "A" >>

NewUsernames == {T1, ABob1, CBob1}

\* the e-mail address each input username registers with
MailOf(u) == IF u = T1 THEN MailTrailing ELSE IF u = ABob1 THEN MailA ELSE MailS

\* what SchoolGUI.handle_add_user passes: grade level and assigned teacher
\* only for a student, the course list only for a teacher
StudentInputs ==
    {[username |-> u, password |-> "p", role |-> "student", name |-> "n",
      email |-> MailOf(u), phone |-> None, grade_level |-> g,
      assigned_teacher |-> at, courses |-> None] :
        u \in NewUsernames, g \in {NullGrade, Number(5)}, at \in {None, T1}}

TeacherInputs ==
    {[username |-> u, password |-> "p", role |-> "teacher", name |-> "n",
      email |-> MailOf(u), phone |-> None, grade_level |-> NullGrade,
      assigned_teacher |-> None, courses |-> c] :
        u \in {T1, CBob1}, c \in {None, CoursesMM, CoursesA}}

BaseInput ==
    [username |-> ABob1, password |-> "p", role |-> "student", name |-> "n",
     email |-> MailA, phone |-> None, grade_level |-> Number(5),
     assigned_teacher |-> None, courses |-> None]

\* one field of a valid call changed at a time
VariedInputs ==
    {[BaseInput EXCEPT !.username = << >>],
     [BaseInput EXCEPT !.username = AdminUsername],
     [BaseInput EXCEPT !.password = ""],
     [BaseInput EXCEPT !.role = "", !.grade_level = NullGrade],
     [BaseInput EXCEPT !.name = ""],
     [BaseInput EXCEPT !.email = << >>],
     [BaseInput EXCEPT !.email = << "x" >>],
     [BaseInput EXCEPT !.email = AdminEmail],
     [BaseInput EXCEPT !.grade_level = Number(13)],
     [BaseInput EXCEPT !.phone = << "1", "2", "3" >>],
     [BaseInput EXCEPT !.phone = PhoneOk],
     [BaseInput EXCEPT !.phone = PhoneNewline]}

AddUserInputs == StudentInputs \cup TeacherInputs \cup VariedInputs

LoginInputs ==
    {[username |-> u, password |-> p] :
        u \in {AdminUsername, T1, << "T", "1" >>, << "t", "1", " " >>},
        p \in {"admin123", "p"}}

\* the first course and an id past every course
CourseIds == {1, MaxCourses + 1}

EnrollInputs ==
    {[student_username |-> u, course_id |-> c] :
        u \in {T1, ABob1}, c \in CourseIds}

(* ---------------------------------------------------------------------- *)
(* Specification                                                           *)
(* ---------------------------------------------------------------------- *)
Login == \E a \in LoginInputs : login(a.username, a.password)
AdminAddsUser == \E a \in AddUserInputs : AddUser(a)
Enroll == \E a \in EnrollInputs : EnrollStudent(a)

\* user administration: accounts, students, courses, enrollments
Next ==
    \/ Construct
    \/ Login
    \/ AdminAddsUser
    \/ Enroll

Spec == Init /\ [][Next]_vars


\* the accounts of one class: teacher T1 with her courses, a second teacher
\* without courses, a student assigned to T1
ClassUserInputs ==
    {[username |-> T1, password |-> "p", role |-> "teacher", name |-> "n",
      email |-> MailOf(T1), phone |-> None, grade_level |-> NullGrade,
      assigned_teacher |-> None, courses |-> CoursesA],
     [username |-> CBob1, password |-> "p", role |-> "teacher", name |-> "n",
      email |-> MailOf(CBob1), phone |-> None, grade_level |-> NullGrade,
      assigned_teacher |-> None, courses |-> None],
     [username |-> ABob1, password |-> "p", role |-> "student", name |-> "n",
      email |-> MailOf(ABob1), phone |-> None, grade_level |-> Number(5),
      assigned_teacher |-> T1, courses |-> None]}

ClassLoginInputs ==
    {[username |-> AdminUsername, password |-> "admin123"],
     [username |-> T1, password |-> "p"],
     [username |-> CBob1, password |-> "p"],
     [username |-> ABob1, password |-> "p"]}

ClassCourseIds == {1, 2}

ClassGradeInputs ==
    {[student_username |-> ABob1, course_id |-> c, grade |-> Number(g)] :
        c \in ClassCourseIds, g \in {0, 100, 101}}

ClassAttendanceInputs ==
    {[student_username |-> ABob1, course_id |-> 1, status |-> st] :
        st \in {"Present", "Late", "Excused"}}
    \cup {[student_username |-> ABob1, course_id |-> 2, status |-> "Present"]}

ClassTimetableInputs ==
    {[course_id |-> c, day |-> "Monday", start_time |-> "09:00", end_time |-> "10:00"] :
        c \in ClassCourseIds}
    \cup {[course_id |-> 1, day |-> "Sunday", start_time |-> "09:00", end_time |-> "10:00"]}

ClassLogin == \E a \in ClassLoginInputs : login(a.username, a.password)
ClassAddsUser == \E a \in ClassUserInputs : AddUser(a)
Grade == \E a \in ClassGradeInputs : AssignGrade(a)
Attend == \E a \in ClassAttendanceInputs : MarkAttendance(a)
Schedule == \E a \in ClassTimetableInputs : AddTimetable(a)

\* class work: grades, attendance, timetable
NextClass ==
    \/ Construct
    \/ AdvanceDay
    \/ ClassLogin
    \/ ClassAddsUser
    \/ Grade
    \/ Attend
    \/ Schedule

SpecClass == Init /\ [][NextClass]_vars


(* ---------------------------------------------------------------------- *)
(* export_report                                                           *)
(* ---------------------------------------------------------------------- *)
\* SELECT * FROM students WHERE username = ?
student_rows(students, student_username) ==
    {st \in students : st.username = student_username}

\* a LEFT JOIN: the indices of the matching rows, or {0} (the NULL row) when
\* no row matches
left_join(hits) == IF hits = {} THEN {0} ELSE hits

\* the rows of the SELECT ... FROM enrollments e JOIN courses c
\* LEFT JOIN attendance a LEFT JOIN timetable t WHERE e.student_username = ?
\* as index triples; the statement has no ORDER BY, so they form a set
report_records(t, student_username) ==
    {rec \in [e : 1..Len(t.enrollments), a : 0..Len(t.attendance),
              tt : 0..Len(t.timetable)] :
        LET en == t.enrollments[rec.e]
        IN /\ en.student_username = student_username
           /\ course_rows(t.courses, en.course_id) # << >>
           /\ rec.a \in left_join(
                  {j \in 1..Len(t.attendance) :
                      /\ t.attendance[j].student_username = en.student_username
                      /\ t.attendance[j].course_id = en.course_id})
           /\ rec.tt \in left_join(
                  {j \in 1..Len(t.timetable) :
                      t.timetable[j].course_id = en.course_id})}

NotAvailable == << "N", "/", "A" >>

\* f"{record[1] if record[1] else 'N/A'}": the REAL grade prints as a float
grade_text(grade) ==
    IF grade = NullGrade \/ grade = Number(0) THEN NotAvailable
    ELSE Decimal(ValueOf(grade)) \o << ".", "0" >>

\* the lines one record adds to the report
report_block(t, rec) ==
    LET en == t.enrollments[rec.e]
        c == course_rows(t.courses, en.course_id)[1]
    IN << << "Course", c.course_name >>, << "Grade", grade_text(en.grade) >> >>
       \o (IF rec.a # 0
           THEN << << "Attendance", t.attendance[rec.a].status,
                      t.attendance[rec.a].date >> >>
           ELSE << >>)
       \o (IF rec.tt # 0
           THEN << << "Schedule", t.timetable[rec.tt].day,
                      t.timetable[rec.tt].start_time,
                      t.timetable[rec.tt].end_time >> >>
           ELSE << >>)

\* the header and one block per record
report_text(t, student, student_username) ==
    [username |-> student_username,
     student_id |-> student.student_id,
     grade_level |-> student.grade_level,
     assigned_teacher |-> IF Truthy(student.assigned_teacher)
                          THEN student.assigned_teacher
                          ELSE << "N", "o", "n", "e" >>,
     blocks |-> {[record |-> rec, lines |-> report_block(t, rec)] :
                    rec \in report_records(t, student_username)}]

\* the body of export_report: its return value and the text it writes
export_report(t, a) ==
    LET found == student_rows(t.students, a.student_username)
    IN IF found = {}
       THEN [result |-> "False", written |-> FALSE, report |-> << >>]
       ELSE [result |-> "True", written |-> TRUE,
             report |-> report_text(t, CHOOSE st \in found : TRUE,
                                    a.student_username)]

\* open(filename, 'w'): the file is created or replaced
write_file(fs, filename, content) ==
    {f \in fs : f.name # filename} \cup {[name |-> filename, content |-> content]}

ExportReport(a) ==
    LET r == export_report(conn, a)
    IN /\ files' = IF r.written THEN write_file(files, a.filename, r.report)
                   ELSE files
       /\ last' = [op |-> "export_report", args |-> a, result |-> r.result]
       /\ UNCHANGED << conn, durable, logged_in_user, today >>

\* the accounts of a report: a teacher with one course, her student, and a
\* student added with the grade level left empty
ReportUserInputs ==
    {[username |-> T1, password |-> "p", role |-> "teacher", name |-> "n",
      email |-> MailOf(T1), phone |-> None, grade_level |-> NullGrade,
      assigned_teacher |-> None, courses |-> CoursesA],
     [username |-> ABob1, password |-> "p", role |-> "student", name |-> "n",
      email |-> MailOf(ABob1), phone |-> None, grade_level |-> Number(5),
      assigned_teacher |-> T1, courses |-> None],
     [username |-> CBob1, password |-> "p", role |-> "student", name |-> "n",
      email |-> MailOf(CBob1), phone |-> None, grade_level |-> NullGrade,
      assigned_teacher |-> None, courses |-> None]}

ReportLoginInputs ==
    {[username |-> AdminUsername, password |-> "admin123"],
     [username |-> T1, password |-> "p"]}

ReportEnrollInputs == {[student_username |-> ABob1, course_id |-> 1]}

ReportGradeInputs ==
    {[student_username |-> ABob1, course_id |-> 1, grade |-> Number(g)] : g \in {0, 100}}

ReportAttendanceInputs ==
    {[student_username |-> ABob1, course_id |-> 1, status |-> st] :
        st \in {"Present", "Late"}}

ReportTimetableInputs ==
    {[course_id |-> 1, day |-> "Monday", start_time |-> "09:00",
      end_time |-> "10:00"]}

\* datetime.now().date().toordinal() on day 1 of the exploration: 2026-10-30
FirstDay == 739919

\* date.fromordinal(n): the year, month and day of day n of the proleptic
\* Gregorian calendar (day 1 is 0001-01-01)
fromordinal(n) ==
    LET z == n + 305                     \* days since 0000-03-01
        era == z \div 146097
        doe == z % 146097
        yoe == (doe - doe \div 1460 + doe \div 36524 - doe \div 146096) \div 365
        doy == doe - (365 * yoe + yoe \div 4 - yoe \div 100)
        mp == (5 * doy + 2) \div 153
        m == IF mp < 10 THEN mp + 3 ELSE mp - 9
    IN [year |-> yoe + era * 400 + (IF m <= 2 THEN 1 ELSE 0),
        month |-> m,
        day |-> doy - (153 * mp + 2) \div 5 + 1]

\* datetime.now().strftime('%Y%m%d') on the given day of the exploration
strftime(day) ==
    LET d == fromordinal(FirstDay + day - 1)
    IN Decimal(d.year) \o Format02d(d.month) \o Format02d(d.day)

\* f"report_{username}_{datetime.now().strftime('%Y%m%d')}.txt"
report_filename(username, day) ==
    << "r", "e", "p", "o", "r", "t", "_" >> \o username \o << "_" >>
    \o strftime(day) \o << ".", "t", "x", "t" >>

\* the calls handle_generate_report makes today
ExportInputs ==
    {[student_username |-> u, filename |-> report_filename(u, today)] :
        u \in {T1, ABob1, CBob1}}

ReportLogin == \E a \in ReportLoginInputs : login(a.username, a.password)
ReportAddsUser == \E a \in ReportUserInputs : AddUser(a)
ReportEnroll == \E a \in ReportEnrollInputs : EnrollStudent(a)
ReportGrade == \E a \in ReportGradeInputs : AssignGrade(a)
ReportAttend == \E a \in ReportAttendanceInputs : MarkAttendance(a)
ReportSchedule == \E a \in ReportTimetableInputs : AddTimetable(a)
Export == \E a \in ExportInputs : ExportReport(a)

\* reports: the records of one student and the file written from them
NextReport ==
    \/ ReportLogin
    \/ ReportAddsUser
    \/ ReportEnroll
    \/ ReportGrade
    \/ ReportAttend
    \/ ReportSchedule
    \/ Export

SpecReport == Init /\ [][NextReport]_vars

\* process restarts over a store that holds accounts, enrollments, attendance
\* and a timetable
NextRestart ==
    \/ Construct
    \/ ReportLogin
    \/ ReportAddsUser
    \/ ReportAttend
    \/ ReportSchedule
    \/ Export

SpecRestart == Init /\ [][NextRestart]_vars

\* the accounts of a graded class: a teacher with one course and two students
\* assigned to her
GradesUserInputs ==
    {[username |-> T1, password |-> "p", role |-> "teacher", name |-> "n",
      email |-> MailOf(T1), phone |-> None, grade_level |-> NullGrade,
      assigned_teacher |-> None, courses |-> CoursesA],
     [username |-> ABob1, password |-> "p", role |-> "student", name |-> "n",
      email |-> MailOf(ABob1), phone |-> None, grade_level |-> Number(5),
      assigned_teacher |-> T1, courses |-> None],
     [username |-> CBob1, password |-> "p", role |-> "student", name |-> "n",
      email |-> MailOf(CBob1), phone |-> None, grade_level |-> Number(6),
      assigned_teacher |-> T1, courses |-> None]}

GradesGradeInputs ==
    {[student_username |-> ABob1, course_id |-> 1, grade |-> Number(g)] :
        g \in {-1, 0, 100, 101}}
    \cup {[student_username |-> CBob1, course_id |-> 1, grade |-> Number(100)],
          [student_username |-> ABob1, course_id |-> 2, grade |-> Number(100)]}

GradesAddsUser == \E a \in GradesUserInputs : AddUser(a)
GradesGrade == \E a \in GradesGradeInputs : AssignGrade(a)

\* grading: auto-enrollment, repeated enrollment, assign_grade
NextGrades ==
    \/ ReportLogin
    \/ GradesAddsUser
    \/ ReportEnroll
    \/ GradesGrade

SpecGrades == Init /\ [][NextGrades]_vars

\* (mutant) Logout forgets the logged-in user
show_login_clears(liu) == LoggedOut

\* SchoolGUI.show_login: clear_window() and a new login form; the argument is
\* sms.logged_in_user, which the method never touches
show_login(liu) == liu

\* the Logout button of a dashboard: command=self.show_login
Logout ==
    /\ logged_in_user # LoggedOut
    /\ logged_in_user' = show_login(logged_in_user)
    /\ last' = [op |-> "show_login", args |-> << >>, result |-> "None"]
    /\ UNCHANGED << conn, durable, today, files >>

SessionLoginInputs ==
    {[username |-> AdminUsername, password |-> "admin123"],
     [username |-> AdminUsername, password |-> "p"],
     [username |-> T1, password |-> "p"]}

SessionLogin == \E a \in SessionLoginInputs : login(a.username, a.password)

\* sessions: logins that succeed and fail, Logout, and gated operations
NextSession ==
    \/ SessionLogin
    \/ Logout
    \/ GradesAddsUser
    \/ GradesGrade

SpecSession == Init /\ [][NextSession]_vars

(* ---------------------------------------------------------------------- *)
(* Properties                                                              *)
(* ---------------------------------------------------------------------- *)
\* the step is a call of op (every call records itself in last; only the
\* clock leaves last alone)
IsCall(op) == last'.op = op /\ today' = today

\* C1: login(username, password) returns True iff some user row has exactly
\* that username (case and whitespace included) and the hash of that
\* password; on True logged_in_user becomes that row's username, role, name.
C1_LoginIffExactRow ==
    [][IsCall("login") =>
        LET a == last'.args
            hit == {u \in conn.users : /\ u.username = a.username
                                       /\ u.password = hash_password(a.password)}
        IN /\ (last'.result = "True") <=> (hit # {})
           /\ last'.result \in {"True", "False"}
           /\ last'.result = "True" =>
                \E u \in hit : logged_in_user' =
                    [username |-> u.username, role |-> u.role, name |-> u.name]
           /\ conn' = conn /\ durable' = durable
    ]_vars

\* a teacher has logged in, and before that a differently-cased or padded
\* spelling of an existing username was tried
C1_Witness ==
    /\ last.op = "login" /\ last.result = "True"
    /\ last.args.username = T1
    /\ logged_in_user = [username |-> T1, role |-> "teacher", name |-> "n"]


\* C2: a role-gated operation called while nobody is logged in, or by a role
\* other than the required one (admin: add_user, add_timetable; teacher:
\* assign_grade, mark_attendance), raises PermissionError and leaves every
\* table and logged_in_user unchanged.
RequiredRole(op) == IF op \in {"add_user", "add_timetable"} THEN "admin" ELSE "teacher"

C2_GateRaisesAndKeepsState ==
    [][\A op \in {"add_user", "add_timetable", "assign_grade", "mark_attendance"} :
        (/\ IsCall(op)
         /\ (logged_in_user = LoggedOut \/ logged_in_user.role # RequiredRole(op)))
        => /\ last'.result = "PermissionError"
           /\ conn' = conn /\ durable' = durable
           /\ logged_in_user' = logged_in_user
    ]_vars

\* an admin, with a student and her enrollment in the tables, was refused
\* assign_grade
C2_Witness ==
    /\ last.op = "assign_grade" /\ last.result = "PermissionError"
    /\ logged_in_user.role = "admin"
    /\ Len(conn.enrollments) > 0

\* C3: a Student row exists for a username iff the User row with that
\* username has role "student".
C3_StudentRowIffStudentRole ==
    /\ \A u \in conn.users :
          (u.role = "student") <=> (\E st \in conn.students : st.username = u.username)
    /\ \A st \in conn.students : \E u \in conn.users : u.username = st.username

\* the identifier as the claim words it: "STU", the last four characters of
\* the username left-padded with zeros to four, the two-digit grade level
ClaimedStudentId(username, grade_level) ==
    LET tail == Last4(username)
    IN << "S", "T", "U" >> \o Repeat("0", 4 - Len(tail)) \o tail
       \o << DigitChar(ValueOf(grade_level) \div 10),
             DigitChar(ValueOf(grade_level) % 10) >>

\* C4: an admin's add_user with role student, a grade level in 1..12, valid
\* required fields and a username and email no existing user has succeeds,
\* and exactly one Student row then exists for the username, with the
\* identifier above.
C4_StudentRowAlwaysCreated ==
    [][LET a == last'.args IN
        (/\ IsCall("add_user")
         /\ logged_in_user.role = "admin"
         /\ a.role = "student"
         /\ Between(a.grade_level, 1, 12)
         /\ Truthy(a.username) /\ a.password # "" /\ a.name # "" /\ Truthy(a.email)
         /\ validate_email(a.email) /\ validate_phone(a.phone)
         /\ \A u \in conn.users : u.username # a.username /\ u.email # a.email)
        => /\ last'.result = "True"
           /\ Cardinality({st \in conn'.students : st.username = a.username}) = 1
           /\ \A st \in conn'.students : st.username = a.username =>
                st.student_id = ClaimedStudentId(a.username, a.grade_level)
    ]_vars

\* the enrollment rows of a student, and the courses a teacher teaches
EnrollmentsOf(t, username) ==
    SelectSeq(t.enrollments, LAMBDA e : e.student_username = username)
TaughtIds(t, teacher) ==
    {t.courses[i].course_id : i \in {k \in 1..Len(t.courses) :
                                        t.courses[k].teacher_username = teacher}}

\* C5: after a successful add_user of a student with an assigned teacher the
\* student is enrolled in exactly the courses that teacher taught at the time
\* of the call, one row per course, grade null; a student created without an
\* assigned teacher has no enrollment rows.
C5_AutoEnrollExactlyTeachersCourses ==
    [][LET a == last'.args
           rows == EnrollmentsOf(conn', a.username)
       IN (/\ IsCall("add_user") /\ last'.result = "True" /\ a.role = "student")
          => IF Truthy(a.assigned_teacher)
             THEN /\ {rows[i].course_id : i \in 1..Len(rows)}
                        = TaughtIds(conn, a.assigned_teacher)
                  /\ Len(rows) = Cardinality(TaughtIds(conn, a.assigned_teacher))
                  /\ \A i \in 1..Len(rows) : rows[i].grade = NullGrade
             ELSE rows = << >>
    ]_vars

\* the entries of a comma-separated list, read off the comma positions, each
\* cut down to the span between its first and last non-blank character
EntryBounds(s) ==
    LET commas == {i \in 1..Len(s) : s[i] = ","}
        starts == {1} \cup {i + 1 : i \in commas}
    IN {<< b, CHOOSE e \in (b - 1)..Len(s) :
                /\ (e = Len(s) \/ e + 1 \in commas)
                /\ \A k \in b..e : k \notin commas >> : b \in starts}
Trimmed(s, b, e) ==
    LET solid == {k \in b..e : s[k] \notin Whitespace}
    IN IF solid = {} THEN << >>
       ELSE SubSeq(s, CHOOSE k \in solid : \A m \in solid : k <= m,
                      CHOOSE k \in solid : \A m \in solid : k >= m)
RECURSIVE EntriesFrom(_, _)
EntriesFrom(s, bounds) ==
    IF bounds = {} THEN << >>
    ELSE LET first == CHOOSE x \in bounds : \A y \in bounds : x[1] <= y[1]
             name == Trimmed(s, first[1], first[2])
         IN (IF name = << >> THEN << >> ELSE << name >>)
            \o EntriesFrom(s, bounds \ {first})
ClaimedEntries(courses) ==
    IF Truthy(courses) THEN EntriesFrom(courses, EntryBounds(courses)) ELSE << >>

\* C6: a successful add_user with role teacher and a comma-separated course
\* list adds one Course row per entry that is non-empty after trimming
\* (duplicates included), each with 3 credits and the new teacher as
\* teacher_username, and changes no other Course, Student or Enrollment row.
C6_TeacherCoursesPerEntry ==
    [][LET a == last'.args
           names == ClaimedEntries(a.courses)
       IN (/\ IsCall("add_user") /\ last'.result = "True" /\ a.role = "teacher")
          => /\ Len(conn'.courses) = Len(conn.courses) + Len(names)
             /\ SubSeq(conn'.courses, 1, Len(conn.courses)) = conn.courses
             /\ \A i \in 1..Len(names) :
                   LET c == conn'.courses[Len(conn.courses) + i]
                   IN /\ c.course_name = names[i]
                      /\ c.credits = 3
                      /\ c.teacher_username = a.username
                      /\ \A k \in 1..Len(conn.courses) :
                            conn.courses[k].course_id # c.course_id
             /\ conn'.students = conn.students
             /\ conn'.enrollments = conn.enrollments
    ]_vars

\* a teacher was added with the list "M, ,M": two courses, both named M
C6_Witness ==
    /\ last.op = "add_user" /\ last.result = "True"
    /\ last.args.role = "teacher" /\ last.args.courses = CoursesMM
    /\ Len(conn.courses) >= 2
    /\ \E i \in 1..Len(conn.courses) : \E j \in 1..Len(conn.courses) :
          /\ i # j
          /\ conn.courses[i].course_name = << "M" >>
          /\ conn.courses[j].course_name = << "M" >>
          /\ conn.courses[i].teacher_username = last.args.username
          /\ conn.courses[j].teacher_username = last.args.username

\* an address of the shape the pattern spells out, one "@" and a dot in the
\* domain, from its first character to its last
WellFormedEmail(email) ==
    /\ Cardinality({k \in 1..Len(email) : email[k] = "@"}) = 1
    /\ LET at == CHOOSE k \in 1..Len(email) : email[k] = "@"
       IN /\ at > 1
          /\ \E j \in (at + 2)..(Len(email) - 1) : email[j] = "."
\* a phone number: an optional "+" and ten to fifteen digits, nothing else
WellFormedPhone(phone) ==
    LET body == IF Len(phone) > 0 /\ phone[1] = "+" THEN Tail(phone) ELSE phone
    IN /\ Len(body) >= 10 /\ Len(body) <= 15
       /\ \A k \in 1..Len(body) : body[k] \in Digit

\* C7: an admin's add_user with a missing required field, a malformed email,
\* a malformed non-empty phone, or a username or email an existing user
\* already has raises ValueError and leaves all six tables as they were.
C7_InvalidInputRejected ==
    [][LET a == last'.args IN
        (/\ IsCall("add_user")
         /\ logged_in_user.role = "admin"
         /\ \/ ~Truthy(a.username) \/ a.password = "" \/ a.role = ""
            \/ a.name = "" \/ ~Truthy(a.email)
            \/ ~WellFormedEmail(a.email)
            \/ (Truthy(a.phone) /\ ~WellFormedPhone(a.phone))
            \/ \E u \in conn.users : u.username = a.username \/ u.email = a.email)
        => /\ last'.result = "ValueError"
           /\ conn' = conn /\ durable' = durable
    ]_vars

\* C8: enroll_student(s, c), whoever calls it, adds exactly one Enrollment
\* row (s, c, grade null) when s is a user with role student and c is a
\* course, even if (s, c) is enrolled already; otherwise it raises ValueError
\* and adds no row.
C8_EnrollAddsOneRowOrRaises ==
    [][LET a == last'.args IN
        IsCall("enroll_student") =>
            IF /\ \E u \in conn.users :
                    u.username = a.student_username /\ u.role = "student"
               /\ \E i \in 1..Len(conn.courses) : conn.courses[i].course_id = a.course_id
            THEN /\ last'.result = "True"
                 /\ Len(conn'.enrollments) = Len(conn.enrollments) + 1
                 /\ SubSeq(conn'.enrollments, 1, Len(conn.enrollments)) = conn.enrollments
                 /\ LET e == conn'.enrollments[Len(conn'.enrollments)]
                    IN /\ e.student_username = a.student_username
                       /\ e.course_id = a.course_id
                       /\ e.grade = NullGrade
                 /\ [conn' EXCEPT !.enrollments = conn.enrollments] = conn
            ELSE /\ last'.result = "ValueError"
                 /\ conn' = conn
    ]_vars

\* a student was enrolled a second time in the same course, by a caller who
\* is not a teacher
C8_Witness ==
    /\ last.op = "enroll_student" /\ last.result = "True"
    /\ logged_in_user.role # "teacher"
    /\ Len(conn.enrollments) >= 2
    /\ LET n == Len(conn.enrollments)
       IN /\ conn.enrollments[n].student_username = last.args.student_username
          /\ conn.enrollments[n].course_id = last.args.course_id
          /\ conn.enrollments[n - 1].student_username = last.args.student_username
          /\ conn.enrollments[n - 1].course_id = last.args.course_id

\* C9: assign_grade with a grade in 0..100 and mark_attendance with a status
\* among Present, Absent, Late return True whenever a teacher is logged in,
\* for every course id, courses of another teacher included.
C9_AnyTeacherSucceeds ==
    [][LET a == last'.args IN
        /\ (/\ IsCall("assign_grade") /\ logged_in_user.role = "teacher"
            /\ Between(a.grade, 0, 100))
           => last'.result = "True"
        /\ (/\ IsCall("mark_attendance") /\ logged_in_user.role = "teacher"
            /\ a.status \in {"Present", "Absent", "Late"})
           => last'.result = "True"
    ]_vars

\* a teacher graded an enrollment in a course that another teacher teaches
C9_Witness ==
    /\ last.op = "assign_grade" /\ last.result = "True"
    /\ logged_in_user.role = "teacher"
    /\ \E i \in 1..Len(conn.courses) :
          /\ conn.courses[i].course_id = last.args.course_id
          /\ conn.courses[i].teacher_username # logged_in_user.username
    /\ \E i \in 1..Len(conn.enrollments) :
          /\ conn.enrollments[i].student_username = last.args.student_username
          /\ conn.enrollments[i].course_id = last.args.course_id
          /\ conn.enrollments[i].grade = last.args.grade

\* C10: every successful mark_attendance(s, c, status) adds exactly one
\* Attendance row (s, c, today, status) and changes or removes no existing
\* row, so n calls for one student, course and day leave n rows; after
\* exactly one call the student's attendance rows number one and carry that
\* status.
C10_AttendanceAppendsOneRow ==
    [][LET a == last'.args IN
        (IsCall("mark_attendance") /\ last'.result = "True")
        => /\ Len(conn'.attendance) = Len(conn.attendance) + 1
           /\ SubSeq(conn'.attendance, 1, Len(conn.attendance)) = conn.attendance
           /\ LET r == conn'.attendance[Len(conn'.attendance)]
              IN /\ r.student_username = a.student_username
                 /\ r.course_id = a.course_id
                 /\ r.date = today
                 /\ r.status = a.status
                 /\ \A k \in 1..Len(conn.attendance) :
                       conn.attendance[k].attendance_id # r.attendance_id
           /\ [conn' EXCEPT !.attendance = conn.attendance] = conn
           /\ (conn.attendance = << >> =>
                 /\ Len(SelectSeq(conn'.attendance,
                        LAMBDA r : r.student_username = a.student_username)) = 1
                 /\ conn'.attendance[1].status = a.status)
    ]_vars

\* two calls for the same student, course and day have left two rows
C10_Witness ==
    /\ last.op = "mark_attendance" /\ last.result = "True"
    /\ Len(conn.attendance) = 2
    /\ conn.attendance[1].student_username = conn.attendance[2].student_username
    /\ conn.attendance[1].course_id = conn.attendance[2].course_id
    /\ conn.attendance[1].date = conn.attendance[2].date
    /\ conn.attendance[2].status = last.args.status


\* the file a call of export_report has left under the name it was given
WrittenFile(fs, a) == CHOOSE f \in fs : f.name = a.filename
\* the blocks of a report that open with a "Course:" line
CourseBlocks(report) == {b \in report.blocks : b.lines[1][1] = "Course"}

\* C11: export_report(username, filename) returns False and writes no file
\* exactly when no user with role student has that username; for every
\* existing student it returns True and writes the report file.
C11_ExportFailsIffNoStudentUser ==
    [][LET a == last'.args IN
        IsCall("export_report") =>
            IF \E u \in conn.users :
                  u.username = a.student_username /\ u.role = "student"
            THEN /\ last'.result = "True"
                 /\ \E f \in files' : /\ f.name = a.filename
                                      /\ f.content.username = a.student_username
            ELSE /\ last'.result = "False"
                 /\ files' = files
    ]_vars

\* C12: for an existing student the report holds exactly one "Course:" block
\* per Enrollment row of that student, however many Attendance and Timetable
\* rows the enrolled courses have.
C12_OneBlockPerEnrollment ==
    [][LET a == last'.args IN
        (IsCall("export_report") /\ last'.result = "True")
        => Cardinality(CourseBlocks(WrittenFile(files', a).content))
              = Len(EnrollmentsOf(conn, a.student_username))
    ]_vars

\* C13: a course block shows "Grade: N/A" iff the enrollment's grade is null;
\* an enrollment with a grade in 0..100 shows that grade.
C13_NotAvailableIffNullGrade ==
    [][LET a == last'.args IN
        (IsCall("export_report") /\ last'.result = "True")
        => \A b \in CourseBlocks(WrittenFile(files', a).content) :
              LET grade == conn.enrollments[b.record.e].grade
                  shown == b.lines[2][2]
              IN /\ b.lines[2][1] = "Grade"
                 /\ (shown = NotAvailable) <=> (grade = NullGrade)
                 /\ Between(grade, 0, 100)
                       => shown = Decimal(ValueOf(grade)) \o << ".", "0" >>
    ]_vars


\* C14: after every process start, whatever the store held before, the users
\* table holds exactly one row (username "admin", role admin, the hash of
\* "admin123"), the other five tables are empty and logged_in_user is None.
C14_StartLeavesOnlyAdmin ==
    last.op = "__init__" =>
        /\ Cardinality(conn.users) = 1
        /\ \A u \in conn.users : /\ u.username = AdminUsername
                                 /\ u.role = "admin"
                                 /\ u.password = hash_password("admin123")
        /\ conn.students = {}
        /\ conn.courses = << >> /\ conn.enrollments = << >>
        /\ conn.attendance = << >> /\ conn.timetable = << >>
        /\ durable = conn
        /\ logged_in_user = LoggedOut

\* the process was started again after a student's report had been written,
\* that is, over a store that held her records
C14_Witness ==
    /\ last.op = "__init__"
    /\ \E f \in files : f.content.username = ABob1 /\ f.content.blocks # {}


\* C15: every operation is atomic, all of its row changes or none: a call
\* that raises leaves no row behind, neither in the connection nor, after a
\* later commit, in the store.
C15_RaisingCallChangesNothing ==
    [][(/\ today' = today
        /\ last'.result \in {"ValueError", "PermissionError", "IntegrityError"})
        => conn' = conn /\ durable' = durable
    ]_vars

\* the rows assign_grade(s, c, .) addresses
Matches(e, a) == e.student_username = a.student_username /\ e.course_id = a.course_id

\* C16: assign_grade(s, c, g) by a logged-in teacher with g in 0..100 sets
\* the grade g on every Enrollment row of (s, c), duplicates included, and
\* leaves every other row of every table unchanged; with no such row it still
\* returns True and changes nothing.
C16_GradeSetOnEveryMatchingRow ==
    [][LET a == last'.args IN
        (/\ IsCall("assign_grade") /\ logged_in_user.role = "teacher"
         /\ Between(a.grade, 0, 100))
        => /\ last'.result = "True"
           /\ Len(conn'.enrollments) = Len(conn.enrollments)
           /\ \A i \in 1..Len(conn.enrollments) :
                 conn'.enrollments[i] =
                    IF Matches(conn.enrollments[i], a)
                    THEN [conn.enrollments[i] EXCEPT !.grade = a.grade]
                    ELSE conn.enrollments[i]
           /\ [conn' EXCEPT !.enrollments = conn.enrollments] = conn
           /\ ((\A i \in 1..Len(conn.enrollments) : ~Matches(conn.enrollments[i], a))
                 => conn' = conn)
    ]_vars

\* a student enrolled twice in the course has the new grade on both rows
C16_Witness ==
    /\ last.op = "assign_grade" /\ last.result = "True"
    /\ last.args.grade = Number(100)
    /\ Len(conn.enrollments) = 2
    /\ \A i \in 1..2 : /\ Matches(conn.enrollments[i], last.args)
                       /\ conn.enrollments[i].grade = Number(100)

\* C17: an Enrollment row has a non-null grade only if, after the row was
\* created, an assign_grade call for its student and course, made while a
\* teacher was logged in, returned successfully; rows made by enroll_student
\* or by auto-enrollment start with a null grade.
C17_GradeNullUntilAssigned ==
    [][\A i \in 1..Len(conn'.enrollments) :
        LET e == conn'.enrollments[i]
        IN e.grade # NullGrade =>
              \/ /\ i <= Len(conn.enrollments)
                 /\ conn.enrollments[i] = e
              \/ /\ i <= Len(conn.enrollments)
                 /\ IsCall("assign_grade") /\ last'.result = "True"
                 /\ logged_in_user.role = "teacher"
                 /\ Matches(e, last'.args)
                 /\ e.grade = last'.args.grade
                 /\ Matches(conn.enrollments[i], last'.args)
    ]_vars

\* a graded enrollment next to a later enrollment of the same student and
\* course, which is still ungraded
C17_Witness ==
    /\ last.op = "enroll_student" /\ last.result = "True"
    /\ Len(conn.enrollments) = 2
    /\ conn.enrollments[1].grade = Number(100)
    /\ conn.enrollments[2].grade = NullGrade
    /\ Matches(conn.enrollments[1], last.args)
    /\ Matches(conn.enrollments[2], last.args)


\* C18: in every reachable state all references resolve: every Attendance and
\* Timetable row names an existing Course, every Attendance row names an
\* existing user, and every Student row's assigned_teacher is null or the
\* username of an existing teacher.
C18_ReferencesResolve ==
    LET CourseExists(c) == \E i \in 1..Len(conn.courses) : conn.courses[i].course_id = c
        UserExists(u) == \E r \in conn.users : r.username = u
        TeacherExists(u) == \E r \in conn.users : r.username = u /\ r.role = "teacher"
    IN /\ \A i \in 1..Len(conn.attendance) :
             /\ CourseExists(conn.attendance[i].course_id)
             /\ UserExists(conn.attendance[i].student_username)
       /\ \A i \in 1..Len(conn.timetable) :
             CourseExists(conn.timetable[i].course_id)
       /\ \A st \in conn.students :
             st.assigned_teacher = None \/ TeacherExists(st.assigned_teacher)

\* C19: every Enrollment grade is null or lies in 0..100: assign_grade with a
\* grade outside 0..100 for an existing enrollment fails with an error
\* instead of returning True and leaves the grades as they were.
C19_GradesStayInRange ==
    [][/\ \A i \in 1..Len(conn'.enrollments) :
             LET g == conn'.enrollments[i].grade
             IN g = NullGrade \/ Between(g, 0, 100)
       /\ LET a == last'.args IN
            (/\ IsCall("assign_grade") /\ logged_in_user.role = "teacher"
             /\ a.grade # NullGrade /\ ~Between(a.grade, 0, 100)
             /\ \E i \in 1..Len(conn.enrollments) : Matches(conn.enrollments[i], a))
            => /\ last'.result = "IntegrityError"
               /\ conn' = conn /\ durable' = durable
    ]_vars

\* a grade of 101 was refused for an enrollment that keeps its grade 100
C19_Witness ==
    /\ last.op = "assign_grade" /\ last.result = "IntegrityError"
    /\ last.args.grade = Number(101)
    /\ \E i \in 1..Len(conn.enrollments) :
          /\ Matches(conn.enrollments[i], last.args)
          /\ conn.enrollments[i].grade = Number(100)


\* C20: logged_in_user changes only on a successful login: a failed login
\* and Logout leave it unchanged, so right after Logout or a failed login the
\* role-gated operations still authorize against the user of the most recent
\* successful login.
C20_IdentityOutlivesLogout ==
    [][/\ logged_in_user' # logged_in_user
            => /\ last'.op = "login" /\ last'.result = "True"
               /\ logged_in_user'.username = last'.args.username
       /\ last'.op = "show_login" /\ last # last'
            => logged_in_user' = logged_in_user
       /\ IsCall("login") /\ last'.result = "False"
            => logged_in_user' = logged_in_user
       /\ \A op \in {"add_user", "assign_grade"} :
            (/\ IsCall(op)
             /\ \/ last.op = "show_login"
                \/ last.op = "login" /\ last.result = "False")
            => (last'.result = "PermissionError"
                   <=> logged_in_user.role # RequiredRole(op))
    ]_vars

\* Logout has run and the administrator who added t1 is still logged in
C20_Witness ==
    /\ last.op = "show_login"
    /\ logged_in_user.role = "admin"
    /\ \E r \in durable.users : r.username = T1

====
